---------------------------- MODULE Spec2Model ----------------------------
(***************************************************************************)
(* A model of LLMTracerMixin                                               *)
(* (src/ragaai_catalyst/tracers/agentic_tracing/tracers/llm_tracer.py):    *)
(* the patch registry (wrap_method / unpatch_llm_calls), the two adapter   *)
(* entry points trace_llm_call (async) and trace_llm_call_sync, the        *)
(* component builder create_llm_component, the span declaration part of   *)
(* trace_llm and the wrappers its decorator puts around a user function.   *)
(*                                                                         *)
(* A logical call chain (a thread or an asyncio task) is a stack of        *)
(* frames, one per adapter invocation in flight.  The innermost frame is   *)
(* the one whose wrapped callable is executing; that callable may itself   *)
(* reach a patched method (a new frame) or finish with an outcome.         *)
(* A component id (uuid4 in the code) is the number of the invocation.     *)
(***************************************************************************)
EXTENDS Integers, Sequences, FiniteSets, TLC

(***************************************************************************)
(* Bounds of the model.                                                    *)
(***************************************************************************)
\* invocations of the adapter over a run
MaxCalls == 2
\* frames in flight on one chain
MaxDepth == 2
\* entries of the patch registry
MaxInstalls == 6
\* metric entries declared by one trace_llm call
MaxMetrics == 2
\* interceptor layers around one method
MaxLayers == 2
\* keyword arguments of one intercepted call
MaxParams == 11

(***************************************************************************)
(* Program constants.                                                      *)
(***************************************************************************)
\* "code": 500 of the error envelope
ErrorCode == 500
\* self.MAX_PARAMETERS_TO_DISPLAY
MAX_PARAMETERS_TO_DISPLAY == 10

None == "None"

VARIABLES
    \* ---- fields of the tracer object -------------------------------------
    is_active,                \* master switch (owned by the base tracer)
    auto_instrument_llm,      \* self.auto_instrument_llm
    patches,                  \* self.patches: <<obj, method_name, original>>
    methods,                  \* attribute state of the patched targets
    current_component_id,     \* self.current_component_id (one bare field)
    component_network_calls,  \* keys of self.component_network_calls
    total_tokens,             \* self.total_tokens
    total_cost,               \* self.total_cost
    llm_data,                 \* self.llm_data: 0 for the initial {} else an id
    span_attributes_dict,     \* self.span_attributes_dict: name -> attributes
    visited_metrics,          \* self.visited_metrics
    gt,                       \* self.gt
    blank,                    \* the keys written into the initial {} of llm_data
    current_llm_call_name,    \* ContextVar llm_call_name, per chain
    current_agent_id,         \* ContextVar of the agent tracer, per chain
    agent_children,           \* ContextVar of the agent tracer, per chain
    declaration,              \* name and metrics arguments of the last trace_llm
    parameters,               \* the parameters argument of the builder
    display,                  \* "info" and "extra_info" of the record it built
    components,               \* root output sink (references to components)
    comp,                     \* the component objects, by id
    \* ---- control state and history ---------------------------------------
    stack,                    \* per chain: the frames in flight
    inv,                      \* per invocation: how it was made and ended
    nextInv,                  \* next invocation number
    log,                      \* start / end / build / publish events
    unpatchStreak,            \* consecutive unpatch_llm_calls calls so far
    sinceUnpatch,             \* TRUE from an unpatch until the next install
    restoreFailed,            \* objects whose setattr raised in that unpatch
    restored,                 \* targets whose setattr succeeded in that unpatch
    unpatchFault              \* the fault that unpatch let through to its caller

vars == <<is_active, auto_instrument_llm, patches, methods,
          current_component_id, component_network_calls, total_tokens,
          total_cost, llm_data, span_attributes_dict, visited_metrics, gt,
          blank, current_llm_call_name, current_agent_id, agent_children,
          declaration, parameters, display, components, comp, stack, inv, nextInv, log, unpatchStreak,
          sinceUnpatch, restoreFailed, restored, unpatchFault>>

registryVars == <<patches, methods, unpatchStreak, sinceUnpatch, restoreFailed,
                  restored, unpatchFault>>

tracerVars == <<current_component_id, component_network_calls, total_tokens,
                total_cost, llm_data, span_attributes_dict, visited_metrics,
                gt, blank, agent_children, components, comp, log>>

displayVars == <<parameters, display>>

contextVars == <<current_llm_call_name, current_agent_id, declaration,
                 displayVars>>

callVars == <<stack, inv, nextInv>>

(***************************************************************************)
(* FAULTS: the class of the raised object and its constructor arguments.   *)
(***************************************************************************)
NoFault == [cls |-> None, args |-> <<>>]

ExceptionClasses == {"ValueError", "TypeError", "AttributeError"}

\* raised through the wrapped call but not derived from Exception
BaseOnlyClasses == {"KeyboardInterrupt", "CancelledError"}

\* `except Exception as e`
IsException(f) == f.cls \in ExceptionClasses

(***************************************************************************)
(* PATCH REGISTRY                                                          *)
(*                                                                         *)
(* methods[<<obj, name>>] is the callable the attribute holds, written as  *)
(* the number of interceptor layers around the callable the target had     *)
(* before any instrumentation: 0 is the pristine callable, n + 1 is        *)
(* wrapper(n).                                                             *)
(***************************************************************************)
Modules == {"litellm", "vertexai", "vertexai.generative_models", "anthropic"}

\* sys.modules holds a submodule only together with its package
LoadedSets ==
    {L \in SUBSET Modules : "vertexai.generative_models" \in L => "vertexai" \in L}

Objects == {"litellm", "GenerativeModel", "Anthropic"}

Patchable == {<<"litellm", "completion">>, <<"litellm", "acompletion">>,
              <<"GenerativeModel", "generate_content">>,
              <<"GenerativeModel", "generate_content_async">>,
              <<"Anthropic", "__init__">>}

\* wrap_vertex_model_methods(model_class)
wrap_vertex_model_methods ==
    << <<"GenerativeModel", "generate_content">>,
       <<"GenerativeModel", "generate_content_async">> >>

\* patch_vertex_ai_methods(module): the class is reached through the
\* generative_models attribute of the package (present once the submodule is
\* imported) and directly on a module that exposes GenerativeModel.
patch_vertex_ai_methods(module, loaded) ==
    (IF module = "vertexai" /\ "vertexai.generative_models" \in loaded
        THEN wrap_vertex_model_methods ELSE <<>>)
    \o
    (IF module = "vertexai.generative_models"
        THEN wrap_vertex_model_methods ELSE <<>>)

\* patch_litellm_methods(module)
patch_litellm_methods ==
    << <<"litellm", "completion">>, <<"litellm", "acompletion">> >>

\* The wrap_method calls instrument_llm_calls makes, in order, for the
\* modules already in sys.modules.
InstrumentWraps(loaded) ==
    (IF "vertexai" \in loaded
        THEN patch_vertex_ai_methods("vertexai", loaded) ELSE <<>>)
    \o (IF "vertexai.generative_models" \in loaded
        THEN patch_vertex_ai_methods("vertexai.generative_models", loaded)
        ELSE <<>>)
    \o (IF "litellm" \in loaded THEN patch_litellm_methods ELSE <<>>)

\* wrap_method(obj, method_name) on a registry state r = [methods, patches]
WrapMethod(r, tm) ==
    [methods |-> [r.methods EXCEPT ![tm] = @ + 1],
     patches |-> Append(r.patches, <<tm[1], tm[2], r.methods[tm]>>)]

RECURSIVE WrapAll(_, _)
WrapAll(r, tms) ==
    IF tms = <<>> THEN r ELSE WrapAll(WrapMethod(r, Head(tms)), Tail(tms))

\* wrap_anthropic_client_methods(client_class): __init__ is replaced by
\* patched_init with a plain setattr; nothing is appended to self.patches.
wrap_anthropic_client_methods(r) ==
    [r EXCEPT !.methods[<<"Anthropic", "__init__">>] = @ + 1]

\* what setattr raises on an object that refuses the assignment
SetattrFault == [cls |-> "AttributeError", args |-> <<"read-only attribute">>]

\* One pass of the loop body of unpatch_llm_calls on the state r of the
\* loop: try: setattr(obj, method_name, original_method) / except Exception.
\* The objects in frozen refuse the assignment.
RestoreEntry_Uncaught(r, p, frozen) ==
    IF p[1] \in frozen
        THEN [r EXCEPT !.fault = SetattrFault]
        ELSE [r EXCEPT !.methods[<<p[1], p[2]>>] = p[3],
                       !.restored = @ \cup {<<p[1], p[2]>>}]

RestoreEntry(r, p, frozen) ==
    IF p[1] \in frozen
        THEN IF IsException(SetattrFault)
                THEN r
                ELSE [r EXCEPT !.fault = SetattrFault]
        ELSE [r EXCEPT !.methods[<<p[1], p[2]>>] = p[3],
                       !.restored = @ \cup {<<p[1], p[2]>>}]

\* The loop of unpatch_llm_calls: entries are restored in registry order;
\* a fault that leaves the loop body ends the loop.
RECURSIVE RestoreAll(_, _, _)
RestoreAll(r, ps, frozen) ==
    IF ps = <<>> THEN r
    ELSE LET r1 == RestoreEntry(r, Head(ps), frozen)
         IN IF r1.fault # NoFault THEN r1
            ELSE RestoreAll(r1, Tail(ps), frozen)

\* self.patches = [] at the end of unpatch_llm_calls
RegistryAfterUnpatch_Kept(ps) == ps

RegistryAfterUnpatch(ps) == <<>>

instrument_llm_calls(loaded) ==
    LET wraps == InstrumentWraps(loaded)
        r0 == WrapAll([methods |-> methods, patches |-> patches], wraps)
        r1 == IF "anthropic" \in loaded
                 THEN wrap_anthropic_client_methods(r0) ELSE r0
    IN /\ Len(patches) + Len(wraps) <= MaxInstalls
       /\ \A tm \in Patchable : r1.methods[tm] <= MaxLayers
       /\ auto_instrument_llm' = TRUE
       /\ methods' = r1.methods
       /\ patches' = r1.patches
       /\ unpatchStreak' = 0
       /\ sinceUnpatch' = (sinceUnpatch /\ r1.methods = methods)
       /\ restoreFailed' = IF r1.methods = methods THEN restoreFailed ELSE {}
       /\ restored' = IF r1.methods = methods THEN restored ELSE {}
       /\ UNCHANGED unpatchFault
       /\ UNCHANGED <<is_active, tracerVars, contextVars, callVars>>

unpatch_llm_calls(frozen) ==
    LET r == RestoreAll([methods |-> methods, restored |-> {},
                         fault |-> NoFault],
                        patches, frozen)
    IN
    /\ methods' = r.methods
    /\ restored' = r.restored
    /\ unpatchFault' = r.fault
    /\ patches' = IF r.fault # NoFault THEN patches
                  ELSE RegistryAfterUnpatch(patches)
    /\ unpatchStreak' = IF unpatchStreak < 2 THEN unpatchStreak + 1 ELSE 2
    /\ sinceUnpatch' = TRUE
    /\ restoreFailed' = {p[1] : p \in {patches[k] : k \in 1..Len(patches)}} \cap frozen
    /\ UNCHANGED <<is_active, auto_instrument_llm, tracerVars, contextVars,
                   callVars>>

(***************************************************************************)
(* VALUES                                                                  *)
(***************************************************************************)
Chains == {"X", "Y"}

NoId == 0

\* original_func.__name__ of the patched method, and the declared span names
FuncName == "create"

SpanNames == {"s1"}

\* Result objects of the wrapped call: a text and the usage it reports.
NoResult == [text |-> None, total_tokens |-> 0]

Results == {[text |-> "hello", total_tokens |-> 3]}

Faults == {[cls |-> "ValueError", args |-> <<"bad request">>],
           [cls |-> "KeyboardInterrupt", args |-> <<>>]}

Outcomes ==
    {[kind |-> "return", result |-> r, fault |-> NoFault] : r \in Results}
    \cup {[kind |-> "raise", result |-> NoResult, fault |-> f] : f \in Faults}

Pending == [kind |-> "pending", result |-> NoResult, fault |-> NoFault]

\* the awaited call was cancelled: asyncio.CancelledError is thrown into the
\* coroutine; the class derives from BaseException, not from Exception
Cancelled ==
    [kind |-> "raise", result |-> NoResult,
     fault |-> [cls |-> "CancelledError", args |-> <<>>]]

\* type(e).__name__
TypeName(f) == f.cls

\* str(e) of an exception built from at most one argument
Str(f) == IF Len(f.args) = 0 THEN "" ELSE f.args[1]

\* error_component of the failure path
ErrorEnvelope_Generic(f) ==
    [code |-> ErrorCode, type |-> "Exception", message |-> Str(f)]

ErrorEnvelope(f) ==
    [code |-> ErrorCode, type |-> TypeName(f), message |-> Str(f)]

NoError == [code |-> 0, type |-> None, message |-> None]

\* `return result`
ReturnResult(result) ==
    [kind |-> "return", result |-> result, fault |-> NoFault]

\* the bare `raise` that ends the except block
Reraise_Swallowed(f) ==
    [kind |-> "return", result |-> NoResult, fault |-> NoFault]

Reraise(f) == [kind |-> "raise", result |-> NoResult, fault |-> f]

\* a fault that no handler of the adapter catches
Propagate(f) == [kind |-> "raise", result |-> NoResult, fault |-> f]

(***************************************************************************)
(* Collaborators of utils/llm_utils.py (total functions).                  *)
(***************************************************************************)
CostPerToken == 2

extract_token_usage(result) == result.total_tokens

calculate_llm_cost(usage) == usage * CostPerToken

extract_model_name(result) == "model-x"

extract_llm_output(result) == result.text

\* A collaborator that is not total: the fault it raises and the place of
\* the call, the extraction block ("usage") or the output_data argument of
\* create_llm_component ("output").
NoCollabFault == [site |-> None, fault |-> NoFault]

CollabFaults ==
    {[site |-> s, fault |-> [cls |-> "TypeError", args |-> <<"unsupported usage">>]] :
        s \in {"usage", "output"}}

(***************************************************************************)
(* Metric names are strings, written as sequences of characters.           *)
(***************************************************************************)
MetricNames == {<<"m">>, <<"m", "_", "1">>}

DigitChars == <<"0", "1", "2", "3", "4", "5", "6", "7", "8", "9">>

\* str.startswith
StartsWith(x, p) == Len(p) <= Len(x) /\ SubSeq(x, 1, Len(p)) = p

\* the decimal digits of f'{counter}'
RECURSIVE Decimal(_)
Decimal(n) ==
    IF n < 10 THEN <<DigitChars[n + 1]>>
    ELSE Decimal(n \div 10) \o <<DigitChars[(n % 10) + 1]>>

\* f'{base_metric_name}_{counter}' if counter > 0 else base_metric_name
MetricName(base, counter) ==
    IF counter > 0 THEN base \o <<"_">> \o Decimal(counter) ELSE base

\* The loop over raw_metrics: returns the names given to the component's
\* metrics and the visited_metrics list afterwards.
RECURSIVE DedupMetrics(_, _, _)
DedupMetrics(raw, visited, acc) ==
    IF raw = <<>> THEN [names |-> acc, visited |-> visited]
    ELSE LET base == Head(raw)
             counter == Cardinality({k \in 1..Len(visited) :
                                        StartsWith(visited[k], base)})
             metric_name == MetricName(base, counter)
         IN DedupMetrics(Tail(raw), Append(visited, metric_name),
                         Append(acc, metric_name))

\* SpanAttributes(name)
EmptySpan == [tags |-> <<>>, metadata |-> {}, metrics |-> <<>>]

\* self.span_attributes_dict[name] = SpanAttributes(name)
ResetSpan_Kept(sad, name) == sad

ResetSpan(sad, name) == (name :> EmptySpan) @@ sad

(***************************************************************************)
(* TRACER STATE threaded through one handler.                              *)
(***************************************************************************)
Self ==
    [current_component_id |-> current_component_id,
     component_network_calls |-> component_network_calls,
     total_tokens |-> total_tokens,
     total_cost |-> total_cost,
     llm_data |-> llm_data,
     span_attributes_dict |-> span_attributes_dict,
     visited_metrics |-> visited_metrics,
     gt |-> gt,
     blank |-> blank,
     agent_children |-> agent_children,
     components |-> components,
     comp |-> comp,
     log |-> log]

Commit(t) ==
    /\ current_component_id' = t.current_component_id
    /\ component_network_calls' = t.component_network_calls
    /\ total_tokens' = t.total_tokens
    /\ total_cost' = t.total_cost
    /\ llm_data' = t.llm_data
    /\ span_attributes_dict' = t.span_attributes_dict
    /\ visited_metrics' = t.visited_metrics
    /\ gt' = t.gt
    /\ blank' = t.blank
    /\ agent_children' = t.agent_children
    /\ components' = t.components
    /\ comp' = t.comp
    /\ log' = t.log

start_component(t, component_id) ==
    [t EXCEPT !.component_network_calls = @ \cup {component_id},
              !.current_component_id = component_id,
              !.log = Append(@, <<"start", component_id>>)]

end_component(t, component_id) ==
    [t EXCEPT !.current_component_id = NoId,
              !.log = Append(@, <<"end", component_id>>)]

\* self.total_tokens += ...; self.total_cost += ... of create_llm_component
AddUsage(t, usage, cost) ==
    [t EXCEPT !.total_tokens = @ + usage,
              !.total_cost = @ + cost]

\* create_llm_component after the counters: the metrics loop, the component
\* and the reset of the span's attributes.  c is the chain the handler runs
\* on.
BuildComponent(t, c, component_id, name, llm_type, output, cost, usage, error) ==
    LET declared == name \in DOMAIN t.span_attributes_dict
        tags == IF declared THEN t.span_attributes_dict[name].tags ELSE <<>>
        raw_metrics ==
            IF declared THEN t.span_attributes_dict[name].metrics ELSE <<>>
        d == DedupMetrics(raw_metrics, t.visited_metrics, <<>>)
        component ==
            [id |-> component_id,
             name |-> name,
             error |-> error,
             parent_id |-> current_agent_id[c],
             model |-> llm_type,
             cost |-> cost,
             tokens |-> usage,
             tags |-> tags,
             output |-> output,
             metrics |-> d.names,
             interactions |-> <<>>,
             gt |-> t.gt]
    IN [t EXCEPT !.visited_metrics = d.visited,
                 !.span_attributes_dict = ResetSpan(@, name),
                 !.comp = (component_id :> component) @@ @,
                 !.log = Append(@, <<"build", component_id>>)]

create_llm_component(t, c, component_id, name, llm_type, output, cost, usage, error) ==
    BuildComponent(AddUsage(t, usage, cost), c, component_id, name, llm_type,
                   output, cost, usage, error)

\* add_component of the base tracer: to the children of the current agent
\* when one is set on this chain, else to the root sink.
add_component(t, c, component_id) ==
    IF current_agent_id[c] # NoId
        THEN [t EXCEPT !.agent_children[c] = Append(@, component_id),
                       !.log = Append(@, <<"publish", component_id>>)]
        ELSE [t EXCEPT !.components = Append(@, component_id),
                       !.log = Append(@, <<"publish", component_id>>)]

\* name = self.current_llm_call_name.get(); original_func.__name__ if None
SpanNameOf(c) ==
    IF current_llm_call_name[c] = None THEN FuncName
    ELSE current_llm_call_name[c]

(***************************************************************************)
(* DUAL-MODE ADAPTER                                                       *)
(***************************************************************************)
\* the two pre-checks of trace_llm_call / trace_llm_call_sync
Intercepts_ActiveOnly == is_active

Intercepts == is_active /\ auto_instrument_llm

Top(c) == stack[c][Len(stack[c])]

Pop(c) == [stack EXCEPT ![c] = SubSeq(@, 1, Len(@) - 1)]

\* inv[i].took of an invocation that has not read self.llm_data
NotTaken == -1

\* From the call to the point where original_func is invoked.
Enter(c, entry) ==
    LET i == nextInv
        traced == Intercepts
        encl == IF stack[c] = <<>> THEN 0 ELSE Top(c).inv
    IN /\ nextInv <= MaxCalls
       /\ Len(stack[c]) < MaxDepth
       /\ stack' = [stack EXCEPT ![c] =
                        Append(@, [inv |-> i, entry |-> entry, traced |-> traced,
                                   pc |-> "call", held |-> 0, out |-> Pending,
                                   name |-> None])]
       /\ inv' = Append(inv, [chain |-> c, entry |-> entry, traced |-> traced,
                              active |-> is_active,
                              auto |-> auto_instrument_llm,
                              encl |-> encl, done |-> FALSE,
                              outcome |-> Pending, observed |-> Pending,
                              took |-> NotTaken, collab |-> NoFault])
       /\ nextInv' = i + 1
       /\ Commit(IF traced THEN start_component(Self, i) ELSE Self)
       /\ UNCHANGED <<is_active, auto_instrument_llm, registryVars, contextVars>>

trace_llm_call_enter(c) == Enter(c, "async")

trace_llm_call_sync_enter(c) == Enter(c, "sync")

\* The frame of chain c ends: its caller observes obs.  cf is the fault a
\* collaborator raised during the bookkeeping, if any.
LeaveAfter(c, out, obs, cf) ==
    /\ stack' = Pop(c)
    /\ inv' = [inv EXCEPT ![Top(c).inv].done = TRUE,
                          ![Top(c).inv].outcome = out,
                          ![Top(c).inv].observed = obs,
                          ![Top(c).inv].collab = cf]
    /\ UNCHANGED <<nextInv, is_active, auto_instrument_llm, registryVars,
                   contextVars>>

Leave(c, out, obs) == LeaveAfter(c, out, obs, NoFault)

\* The try block raised cf.fault after original_func had returned: control
\* is in the except block.  end_component has already run once when the
\* fault came from the output_data argument.
AfterReturn(t, i, cf) == IF cf.site = "output" THEN end_component(t, i) ELSE t

\* success path of trace_llm_call: add_component is commented out
AsyncSuccess(t, c, i, result) ==
    LET usage == extract_token_usage(result)
        t1 == end_component(t, i)
        t2 == create_llm_component(t1, c, i, SpanNameOf(c),
                                   extract_model_name(result),
                                   extract_llm_output(result),
                                   calculate_llm_cost(usage), usage, NoError)
    IN [t2 EXCEPT !.llm_data = i]

\* failure path of trace_llm_call: self.llm_data is not assigned
AsyncFailure(t, c, i, f) ==
    LET t1 == end_component(t, i)
        t2 == create_llm_component(t1, c, i, SpanNameOf(c), "unknown", None,
                                   0, 0, ErrorEnvelope(f))
    IN add_component(t2, c, i)

\* success path of trace_llm_call_sync
SyncSuccess(t, c, i, result) ==
    LET usage == extract_token_usage(result)
        t1 == end_component(t, i)
        t2 == create_llm_component(t1, c, i, SpanNameOf(c),
                                   extract_model_name(result),
                                   extract_llm_output(result),
                                   calculate_llm_cost(usage), usage, NoError)
    IN add_component([t2 EXCEPT !.llm_data = i], c, i)

\* failure path of trace_llm_call_sync
SyncFailure(t, c, i, f) ==
    LET t1 == end_component(t, i)
        t2 == create_llm_component(t1, c, i, SpanNameOf(c), "unknown", None,
                                   0, 0, ErrorEnvelope(f))
    IN add_component([t2 EXCEPT !.llm_data = i], c, i)

\* original_func has finished with `out`: the rest of trace_llm_call
trace_llm_call_exit(c, out, cf) ==
    /\ stack[c] # <<>>
    /\ Top(c).entry = "async"
    /\ Top(c).pc = "call"
    /\ cf # NoCollabFault => (Top(c).traced /\ out.kind = "return")
    /\ LET i == Top(c).inv
       IN IF ~Top(c).traced
             THEN /\ Commit(Self)
                  /\ Leave(c, out, out)
          ELSE IF out.kind = "return" /\ cf # NoCollabFault
             THEN /\ Commit(AsyncFailure(AfterReturn(Self, i, cf), c, i, cf.fault))
                  /\ LeaveAfter(c, out, Reraise(cf.fault), cf.fault)
          ELSE IF out.kind = "return"
             THEN /\ Commit(AsyncSuccess(Self, c, i, out.result))
                  /\ Leave(c, out, ReturnResult(out.result))
          ELSE IF IsException(out.fault)
             THEN /\ Commit(AsyncFailure(Self, c, i, out.fault))
                  /\ Leave(c, out, Reraise(out.fault))
          ELSE /\ Commit(Self)
               /\ Leave(c, out, Propagate(out.fault))

\* original_func has finished with `out`: the rest of trace_llm_call_sync
trace_llm_call_sync_exit(c, out, cf) ==
    /\ stack[c] # <<>>
    /\ Top(c).entry = "sync"
    /\ Top(c).pc = "call"
    /\ cf # NoCollabFault => (Top(c).traced /\ out.kind = "return")
    /\ LET i == Top(c).inv
       IN IF ~Top(c).traced
             THEN /\ Commit(Self)
                  /\ Leave(c, out, out)
          ELSE IF out.kind = "return" /\ cf # NoCollabFault
             THEN /\ Commit(SyncFailure(AfterReturn(Self, i, cf), c, i, cf.fault))
                  /\ LeaveAfter(c, out, Reraise(cf.fault), cf.fault)
          ELSE IF out.kind = "return"
             THEN /\ Commit(SyncSuccess(Self, c, i, out.result))
                  /\ Leave(c, out, ReturnResult(out.result))
          ELSE IF IsException(out.fault)
             THEN /\ Commit(SyncFailure(Self, c, i, out.fault))
                  /\ Leave(c, out, Reraise(out.fault))
          ELSE /\ Commit(Self)
               /\ Leave(c, out, Propagate(out.fault))

(***************************************************************************)
(* trace_llm_call_sync ON THREADS.  The tracer takes no lock, so a thread  *)
(* can be preempted inside `self.total_tokens += ...` and inside           *)
(* `self.total_cost += ...` between the load of the attribute and the      *)
(* store of the sum.  The rest of the handler is split at these two        *)
(* points; the frame keeps the loaded value in `held`.                     *)
(***************************************************************************)
\* what the handler passes to create_llm_component on either path
BuilderArgs(out) ==
    IF out.kind = "return"
        THEN [llm_type |-> extract_model_name(out.result),
              output |-> extract_llm_output(out.result),
              cost |-> calculate_llm_cost(extract_token_usage(out.result)),
              usage |-> extract_token_usage(out.result),
              error |-> NoError]
        ELSE [llm_type |-> "unknown", output |-> None, cost |-> 0, usage |-> 0,
              error |-> ErrorEnvelope(out.fault)]

SetTop(c, f) == [stack EXCEPT ![c][Len(stack[c])] = f]

\* original_func has finished with `out`; on a traced call that returned or
\* raised an Exception the handler runs up to the load of self.total_tokens
trace_llm_call_sync_load_tokens(c, out) ==
    /\ stack[c] # <<>>
    /\ Top(c).entry = "sync"
    /\ Top(c).pc = "call"
    /\ LET i == Top(c).inv
       IN IF ~Top(c).traced
             THEN /\ Commit(Self)
                  /\ Leave(c, out, out)
          ELSE IF out.kind = "return" \/ IsException(out.fault)
             THEN /\ Commit(end_component(Self, i))
                  /\ stack' = SetTop(c, [Top(c) EXCEPT !.pc = "tokens",
                                                      !.held = total_tokens,
                                                      !.out = out])
                  /\ UNCHANGED <<inv, nextInv, is_active, auto_instrument_llm,
                                 registryVars, contextVars>>
          ELSE /\ Commit(Self)
               /\ Leave(c, out, Propagate(out.fault))

\* the store of self.total_tokens, then the load of self.total_cost
trace_llm_call_sync_store_tokens(c) ==
    /\ stack[c] # <<>>
    /\ Top(c).pc = "tokens"
    /\ Commit([Self EXCEPT !.total_tokens = Top(c).held + BuilderArgs(Top(c).out).usage])
    /\ stack' = SetTop(c, [Top(c) EXCEPT !.pc = "cost", !.held = total_cost])
    /\ UNCHANGED <<inv, nextInv, is_active, auto_instrument_llm, registryVars,
                   contextVars>>

\* the store of self.total_cost, then the handler to its end
trace_llm_call_sync_store_cost(c) ==
    /\ stack[c] # <<>>
    /\ Top(c).pc = "cost"
    /\ LET i == Top(c).inv
           out == Top(c).out
           a == BuilderArgs(out)
           t1 == [Self EXCEPT !.total_cost = Top(c).held + a.cost]
           t2 == BuildComponent(t1, c, i, SpanNameOf(c), a.llm_type, a.output,
                                a.cost, a.usage, a.error)
       IN /\ Commit(add_component([t2 EXCEPT !.llm_data = i], c, i))
          /\ Leave(c, out, IF out.kind = "return" THEN ReturnResult(out.result)
                           ELSE Reraise(out.fault))

(***************************************************************************)
(* FACADE: async_wrapper / sync_wrapper, the wrappers that the decorator   *)
(* returned by trace_llm puts around a user function.  A frame of entry    *)
(* "async_wrapper" or "sync_wrapper" is one decorated invocation; the      *)
(* decorated function may reach a patched method (an adapter frame above   *)
(* it) or finish with an outcome.                                          *)
(***************************************************************************)
Wrappers == {"async_wrapper", "sync_wrapper"}

\* values of the gt keyword argument of a decorated call
GtValues == {None, "expected"}

\* the initial {} of self.llm_data: no key written yet
BlankDict == [name |-> None, error |-> NoError, interactions |-> <<>>]

\* error_info["error"] of the wrappers: type and message, no code
WrapperEnvelope(f) == [code |-> 0, type |-> TypeName(f), message |-> Str(f)]

\* llm_component["data"] on a dict without that key
KeyErrorData == [cls |-> "KeyError", args |-> <<"data">>]

\* item assignments to the dict self.llm_data refers to (k = 0: the {})
SetName(t, k, name) ==
    IF k = NoId THEN [t EXCEPT !.blank.name = name]
    ELSE [t EXCEPT !.comp[k].name = name]

SetError(t, k, e) ==
    IF k = NoId THEN [t EXCEPT !.blank.error = e]
    ELSE [t EXCEPT !.comp[k].error = e]

SetInteractions(t, k, v) ==
    IF k = NoId THEN [t EXCEPT !.blank.interactions = v]
    ELSE [t EXCEPT !.comp[k].interactions = v]

SetGt(t, k, g) == [t EXCEPT !.comp[k].gt = g]

\* children = self.agent_children.get(); children.append(llm_component)
AppendChild(t, c, k) ==
    [t EXCEPT !.agent_children[c] = Append(@, k),
              !.log = Append(@, <<"publish", k>>)]

\* From the call of the wrapper to the call of func.
WrapperEnter(c, entry, name, g) ==
    LET i == nextInv
        traced == is_active
        encl == IF stack[c] = <<>> THEN 0 ELSE Top(c).inv
        t0 == [Self EXCEPT !.gt = g]
    IN /\ nextInv <= MaxCalls
       /\ Len(stack[c]) < MaxDepth
       /\ name \in DOMAIN span_attributes_dict
       /\ stack' = [stack EXCEPT ![c] =
                        Append(@, [inv |-> i, entry |-> entry, traced |-> traced,
                                   pc |-> "call", held |-> 0, out |-> Pending,
                                   name |-> name])]
       /\ inv' = Append(inv, [chain |-> c, entry |-> entry, traced |-> traced,
                              active |-> is_active,
                              auto |-> auto_instrument_llm,
                              encl |-> encl, done |-> FALSE,
                              outcome |-> Pending, observed |-> Pending,
                              took |-> NotTaken, collab |-> NoFault])
       /\ nextInv' = i + 1
       /\ current_llm_call_name' = [current_llm_call_name EXCEPT ![c] = name]
       /\ Commit(IF traced THEN start_component(t0, i) ELSE t0)
       /\ UNCHANGED <<is_active, auto_instrument_llm, registryVars,
                      current_agent_id, declaration, displayVars>>

async_wrapper_enter(c, name, g) == WrapperEnter(c, "async_wrapper", name, g)

sync_wrapper_enter(c, name, g) == WrapperEnter(c, "sync_wrapper", name, g)

\* The finally block of the wrappers.  It returns the tracer state it leaves
\* and the fault it raised itself, if any.
WrapperFinally(t, c, i, name, is_async, error_info) ==
    LET k == t.llm_data
        t1 == SetName(t, k, name)
        stamps_gt == is_async /\ t.gt # None
        t2 == IF stamps_gt /\ k # NoId THEN SetGt(t1, k, t.gt) ELSE t1
        t3 == IF error_info # NoError THEN SetError(t2, k, error_info) ELSE t2
        t4 == IF current_agent_id[c] # NoId THEN AppendChild(t3, c, k)
              ELSE add_component(t3, c, k)
        t5 == end_component(t4, i)
        t6 == SetInteractions(t5, k, <<>>)
        t7 == add_component(t6, c, k)
    IN IF stamps_gt /\ k = NoId
          THEN [t |-> t1, fault |-> KeyErrorData]
          ELSE [t |-> t7, fault |-> NoFault]

\* func has finished with `out`: the rest of the wrapper
WrapperExit(c, out, is_async) ==
    /\ stack[c] # <<>>
    /\ Top(c).pc = "call"
    /\ LET i == Top(c).inv
           error_info == IF out.kind = "raise" /\ IsException(out.fault)
                            THEN WrapperEnvelope(out.fault) ELSE NoError
           r == WrapperFinally(Self, c, i, Top(c).name, is_async, error_info)
       IN /\ stack' = Pop(c)
          /\ IF ~Top(c).traced
                THEN /\ Commit(Self)
                     /\ inv' = [inv EXCEPT ![i].done = TRUE,
                                           ![i].outcome = out,
                                           ![i].observed = out]
                ELSE /\ Commit(r.t)
                     /\ inv' = [inv EXCEPT ![i].done = TRUE,
                                           ![i].outcome = out,
                                           ![i].observed =
                                               IF r.fault # NoFault
                                                  THEN Propagate(r.fault)
                                                  ELSE out,
                                           ![i].took = llm_data]
          /\ UNCHANGED <<nextInv, is_active, auto_instrument_llm, registryVars,
                         contextVars>>

async_wrapper_exit(c, out) ==
    /\ stack[c] # <<>>
    /\ Top(c).entry = "async_wrapper"
    /\ WrapperExit(c, out, TRUE)

sync_wrapper_exit(c, out) ==
    /\ stack[c] # <<>>
    /\ Top(c).entry = "sync_wrapper"
    /\ WrapperExit(c, out, FALSE)

(***************************************************************************)
(* SPAN DECLARATION: the body of trace_llm before the decorator is built.  *)
(***************************************************************************)
\* A metric entry of the metrics argument: a dict that may lack "name" or
\* "score".
ValidEntries ==
    {[has_name |-> TRUE, has_score |-> TRUE, name |-> m] : m \in MetricNames}

InvalidEntries ==
    {[has_name |-> TRUE, has_score |-> FALSE, name |-> <<"m">>],
     [has_name |-> FALSE, has_score |-> TRUE, name |-> <<>>]}

MetricLists == UNION {[1..n -> ValidEntries] : n \in 0..MaxMetrics}

\* SpanAttributes.add_tags / add_metadata / add_metrics
add_tags(span, tags) == [span EXCEPT !.tags = @ \o tags]

add_metadata(span, metadata) == [span EXCEPT !.metadata = @ \cup metadata]

add_metrics(span, name) == [span EXCEPT !.metrics = Append(@, name)]

\* The loop over metrics inside the try of trace_llm: metric["name"] or
\* metric["score"] of an entry without that key raises KeyError, which the
\* handler around the whole loop catches.
RECURSIVE RegisterMetrics(_, _)
RegisterMetrics(span, metrics) ==
    IF metrics = <<>> THEN span
    ELSE LET metric == Head(metrics)
         IN IF ~metric.has_name \/ ~metric.has_score THEN span
            ELSE RegisterMetrics(add_metrics(span, metric.name), Tail(metrics))

trace_llm(c, name, tags, metadata, metrics) ==
    LET old == IF name \in DOMAIN span_attributes_dict
                  THEN span_attributes_dict[name] ELSE EmptySpan
        s1 == IF tags # <<>> THEN add_tags(old, tags) ELSE old
        s2 == IF metadata # {} THEN add_metadata(s1, metadata) ELSE s1
        s3 == IF metrics # <<>> THEN RegisterMetrics(s2, metrics) ELSE s2
    IN /\ Len(old.metrics) + Len(metrics) <= MaxMetrics
       /\ Len(old.tags) + Len(tags) <= 1
       /\ span_attributes_dict' = (name :> s3) @@ span_attributes_dict
       /\ current_llm_call_name' = [current_llm_call_name EXCEPT ![c] = name]
       /\ declaration' = [name |-> name, metrics |-> metrics]
       /\ UNCHANGED <<is_active, auto_instrument_llm, registryVars,
                      current_component_id, component_network_calls,
                      total_tokens, total_cost, llm_data, visited_metrics,
                      gt, blank, current_agent_id, agent_children, components,
                      comp, log, callVars, displayVars>>

(***************************************************************************)
(* PARAMETER DISPLAY: the part of create_llm_component that fills the      *)
(* "info" and "extra_info" fields from the parameters mapping.  A mapping  *)
(* is the sequence of its entries in insertion order.                      *)
(***************************************************************************)
Key(i) == [name |-> "p", n |-> i]

RunManagerKey == [name |-> "run_manager", n |-> 0]

MetadataKey == [name |-> "m", n |-> 0]

Plain(type) == [type |-> type, has_metadata |-> FALSE, metadata |-> <<>>]

\* isinstance(value, (str, int, float, bool))
IsScalar(value) == value.type \in {"str", "int", "float", "bool"}

\* values of ordinary keyword arguments
ParameterValues == {Plain("int"), Plain("dict")}

\* a callback manager object, without or with a metadata attribute
RunManagers ==
    {Plain("object"),
     [type |-> "object", has_metadata |-> TRUE,
      metadata |-> <<[key |-> MetadataKey, value |-> Plain("list")]>>],
     [type |-> "object", has_metadata |-> TRUE,
      metadata |-> <<[key |-> Key(2), value |-> Plain("str")]>>]}

Keys(d) == {d[j].key : j \in 1..Len(d)}

Lookup(d, k) == d[CHOOSE j \in 1..Len(d) : d[j].key = k].value

\* d[k] = v: an existing key keeps its position
Put(d, k, v) ==
    IF k \in Keys(d)
    THEN [j \in 1..Len(d) |-> IF d[j].key = k THEN [key |-> k, value |-> v]
                                               ELSE d[j]]
    ELSE Append(d, [key |-> k, value |-> v])

RECURSIVE Update(_, _)
\* d.update(other)
Update(d, other) ==
    IF other = <<>> THEN d
    ELSE Update(Put(d, Head(other).key, Head(other).value), Tail(other))

RECURSIVE PutScalars(_, _)
PutScalars(d, entries) ==
    IF entries = <<>> THEN d
    ELSE PutScalars(IF IsScalar(Head(entries).value)
                       THEN Put(d, Head(entries).key, Head(entries).value)
                       ELSE d,
                    Tail(entries))

\* list(d.items())[:limit]
FirstItems(d, limit) == SubSeq(d, 1, IF Len(d) < limit THEN Len(d) ELSE limit)

parameters_to_display(params) ==
    LET d0 == IF RunManagerKey \in Keys(params)
                 /\ Lookup(params, RunManagerKey).has_metadata
              THEN Update(<<>>, Lookup(params, RunManagerKey).metadata)
              ELSE <<>>
    IN FirstItems(PutScalars(d0, params), MAX_PARAMETERS_TO_DISPLAY)

NotBuilt == [built |-> FALSE, info |-> <<>>, extra_info |-> <<>>]

\* the caller passes one more keyword argument to the intercepted method,
\* until the builder runs on the mapping
AddParameter(k, v) ==
    /\ ~display.built
    /\ Len(parameters) < MaxParams
    /\ k \notin Keys(parameters)
    /\ parameters' = Append(parameters, [key |-> k, value |-> v])
    /\ UNCHANGED <<is_active, auto_instrument_llm, registryVars, tracerVars,
                   current_llm_call_name, current_agent_id, declaration,
                   display, callVars>>

\* the builder fills "info" and "extra_info" of the record
create_llm_component_parameters ==
    /\ ~display.built
    /\ display' = [built |-> TRUE,
                   info |-> parameters_to_display(parameters),
                   extra_info |-> parameters]
    /\ UNCHANGED <<is_active, auto_instrument_llm, registryVars, tracerVars,
                   current_llm_call_name, current_agent_id, declaration,
                   parameters, callVars>>

(***************************************************************************)
(* ENVIRONMENT: the master switch belongs to the base tracer, which starts *)
(* and stops tracing between calls.                                        *)
(***************************************************************************)
set_active(b) ==
    /\ is_active # b
    /\ \A c \in Chains : stack[c] = <<>>
    /\ is_active' = b
    /\ UNCHANGED <<auto_instrument_llm, registryVars, tracerVars, contextVars,
                   callVars>>

(***************************************************************************)
(* SPECIFICATIONS                                                          *)
(***************************************************************************)
\* the id of an agent span opened by the agent tracer around the chain
AgentId == MaxCalls + 100

AgentIds == {NoId, AgentId}

Init ==
    /\ is_active = FALSE
    /\ auto_instrument_llm = FALSE
    /\ patches = <<>>
    /\ methods = [tm \in Patchable |-> 0]
    /\ current_component_id = NoId
    /\ component_network_calls = {}
    /\ total_tokens = 0
    /\ total_cost = 0
    /\ llm_data = NoId
    /\ span_attributes_dict = <<>>
    /\ declaration = [name |-> None, metrics |-> <<>>]
    /\ parameters = <<>>
    /\ display = NotBuilt
    /\ visited_metrics = <<>>
    /\ gt = None
    /\ blank = BlankDict
    /\ current_llm_call_name = [c \in Chains |-> None]
    /\ current_agent_id \in {f \in [Chains -> AgentIds] : f["Y"] = NoId}
    /\ agent_children = [c \in Chains |-> <<>>]
    /\ components = <<>>
    /\ comp = <<>>
    /\ stack = [c \in Chains |-> <<>>]
    /\ inv = <<>>
    /\ nextInv = 1
    /\ log = <<>>
    /\ unpatchStreak = 0
    /\ sinceUnpatch = FALSE
    /\ restoreFailed = {}
    /\ restored = {}
    /\ unpatchFault = NoFault

\* The adapter under calls on two chains.
Next ==
    \/ \E b \in BOOLEAN : set_active(b)
    \/ instrument_llm_calls({})
    \/ \E c \in Chains : trace_llm_call_enter(c)
    \/ \E c \in Chains : trace_llm_call_sync_enter(c)
    \/ \E c \in Chains, out \in Outcomes : trace_llm_call_exit(c, out, NoCollabFault)
    \/ \E c \in Chains, out \in Outcomes : trace_llm_call_sync_exit(c, out, NoCollabFault)

Spec == Init /\ [][Next]_vars

\* The patch registry under installs and uninstalls.
NextPatch ==
    \/ \E loaded \in LoadedSets : instrument_llm_calls(loaded)
    \/ \E frozen \in SUBSET Objects : unpatch_llm_calls(frozen)

SpecPatch == Init /\ [][NextPatch]_vars

\* The component builder under declared metrics, on one chain.
NextMetrics ==
    \/ set_active(TRUE)
    \/ instrument_llm_calls({})
    \/ \E n \in SpanNames, ms \in MetricLists : trace_llm("X", n, <<>>, {}, ms)
    \/ trace_llm_call_sync_enter("X")
    \/ \E out \in {o \in Outcomes : o.kind = "return"} :
           trace_llm_call_sync_exit("X", out, NoCollabFault)

SpecMetrics == Init /\ [][NextMetrics]_vars

\* trace_llm_call_sync called from two threads.
NextThreads ==
    \/ set_active(TRUE)
    \/ instrument_llm_calls({})
    \/ \E c \in Chains : trace_llm_call_sync_enter(c)
    \/ \E c \in Chains, out \in Outcomes : trace_llm_call_sync_load_tokens(c, out)
    \/ \E c \in Chains : trace_llm_call_sync_store_tokens(c)
    \/ \E c \in Chains : trace_llm_call_sync_store_cost(c)

SpecThreads == Init /\ [][NextThreads]_vars

\* Decorated functions and the instrumented calls they make, on two chains.
NextFacade ==
    \/ \E b \in BOOLEAN : set_active(b)
    \/ instrument_llm_calls({})
    \/ \E n \in SpanNames : trace_llm("X", n, <<>>, {}, <<>>)
    \/ \E c \in Chains, n \in SpanNames, g \in GtValues : async_wrapper_enter(c, n, g)
    \/ \E c \in Chains, n \in SpanNames, g \in GtValues : sync_wrapper_enter(c, n, g)
    \/ \E c \in Chains, out \in Outcomes : async_wrapper_exit(c, out)
    \/ \E c \in Chains, out \in Outcomes : sync_wrapper_exit(c, out)
    \/ \E c \in Chains : trace_llm_call_enter(c)
    \/ \E c \in Chains : trace_llm_call_sync_enter(c)
    \/ \E c \in Chains, out \in Outcomes : trace_llm_call_exit(c, out, NoCollabFault)
    \/ \E c \in Chains, out \in Outcomes : trace_llm_call_sync_exit(c, out, NoCollabFault)

SpecFacade == Init /\ [][NextFacade]_vars

\* The adapter when collaborators may raise and awaited calls may be
\* cancelled.
NextFaults ==
    \/ set_active(TRUE)
    \/ instrument_llm_calls({})
    \/ \E c \in Chains : trace_llm_call_enter(c)
    \/ \E c \in Chains : trace_llm_call_sync_enter(c)
    \/ \E c \in Chains, out \in Outcomes \cup {Cancelled} :
           \E cf \in CollabFaults \cup {NoCollabFault} : trace_llm_call_exit(c, out, cf)
    \/ \E c \in Chains, out \in Outcomes :
           \E cf \in CollabFaults \cup {NoCollabFault} : trace_llm_call_sync_exit(c, out, cf)

SpecFaults == Init /\ [][NextFaults]_vars

\* Span declarations with tags, metadata and metrics for two span names,
\* and the components built under them.
AllSpanNames == SpanNames \cup {"s2"}

OneMetric == {e \in ValidEntries : e.name = <<"m">>}

\* the arguments of a trace_llm call: nothing, or one tag, one metadata key
\* and one metric
Declarations ==
    {[tags |-> <<>>, metadata |-> {}, metrics |-> <<>>]}
    \cup {[tags |-> <<"t">>, metadata |-> {"k"}, metrics |-> <<e>>] : e \in OneMetric}

NextSpans ==
    \/ set_active(TRUE)
    \/ instrument_llm_calls({})
    \/ \E n \in AllSpanNames, d \in Declarations :
           trace_llm("X", n, d.tags, d.metadata, d.metrics)
    \/ trace_llm_call_sync_enter("X")
    \/ \E out \in {o \in Outcomes : o.kind = "return"} :
           trace_llm_call_sync_exit("X", out, NoCollabFault)

SpecSpans == Init /\ [][NextSpans]_vars

\* Span declarations whose metric entries may be invalid.
EntryLists ==
    UNION {[1..n -> OneMetric \cup InvalidEntries] : n \in 0..MaxMetrics}

NextDeclare ==
    \/ set_active(TRUE)
    \/ instrument_llm_calls({})
    \/ \E n \in SpanNames, ms \in EntryLists : trace_llm("X", n, <<>>, {}, ms)
    \/ trace_llm_call_sync_enter("X")
    \/ \E out \in {o \in Outcomes : o.kind = "return"} :
           trace_llm_call_sync_exit("X", out, NoCollabFault)

SpecDeclare == Init /\ [][NextDeclare]_vars

\* Keyword arguments p1, p2, ... given in that order, each with a scalar or a
\* structured value, and run_manager given at any place among them.
NextDisplay ==
    \/ \E v \in ParameterValues :
           AddParameter(Key(1 + Cardinality(Keys(parameters) \ {RunManagerKey})), v)
    \/ \E v \in RunManagers : AddParameter(RunManagerKey, v)
    \/ create_llm_component_parameters

SpecDisplay == Init /\ [][NextDisplay]_vars

(***************************************************************************)
(* PROPERTIES                                                              *)
(***************************************************************************)
Invocations == 1..Len(inv)

Count(op, i) == Cardinality({k \in 1..Len(log) : log[k] = <<op, i>>})

Range(q) == {q[k] : k \in 1..Len(q)}

\* made while the tracer was active and LLM auto-instrumentation enabled
Enabled(i) == inv[i].active /\ inv[i].auto

\* the wrapped call returned, or raised a fault derived from Exception
Ordinary(i) ==
    \/ inv[i].outcome.kind = "return"
    \/ inv[i].outcome.kind = "raise" /\ inv[i].outcome.fault.cls \in ExceptionClasses

Routed(i) ==
    i \in Range(components) \/ \E c \in Chains : i \in Range(agent_children[c])

\* C1: every invocation made through trace_llm_call or trace_llm_call_sync
\* with the tracer active and instrumentation enabled has, once control is
\* back at the caller, exactly one component built and exactly one routed
\* through add_component, whether the wrapped call returned or raised.
CounterC1 ==
    \A i \in Invocations :
        (Enabled(i) /\ inv[i].done /\ Ordinary(i))
            => (Count("build", i) = 1 /\ Count("publish", i) = 1)

\* C2: the caller of an enabled invocation observes exactly the outcome of
\* the wrapped call: the same result when it returns, the same fault (class
\* and arguments) when it raises.
TheoremC2 ==
    \A i \in Invocations :
        (Enabled(i) /\ inv[i].done) => inv[i].observed = inv[i].outcome

WitnessC2 ==
    /\ \E i \in Invocations :
          /\ Enabled(i) /\ inv[i].done
          /\ inv[i].outcome.kind = "raise"
          /\ inv[i].outcome.fault.cls = "ValueError"
          /\ inv[i].observed.kind = "raise"
    /\ \E i \in Invocations :
          /\ Enabled(i) /\ inv[i].done
          /\ inv[i].outcome.kind = "return"
          /\ inv[i].observed.result.text = "hello"

TheoremC4 ==
    [][\A c \in Chains :
          LET entering == /\ Len(stack'[c]) = Len(stack[c]) + 1
                          /\ ~(is_active /\ auto_instrument_llm)
              leaving == /\ Len(stack'[c]) = Len(stack[c]) - 1
                         /\ ~Enabled(stack[c][Len(stack[c])].inv)
          IN (entering \/ leaving) =>
                 UNCHANGED <<comp, components, agent_children,
                             component_network_calls, current_component_id,
                             llm_data, total_tokens, total_cost, log>>]_vars

WitnessC4 ==
    \E i, j \in Invocations :
        /\ inv[i].done /\ ~inv[i].active
        /\ inv[j].done /\ inv[j].active /\ ~inv[j].auto
        /\ comp = <<>> /\ components = <<>> /\ component_network_calls = {}

\* C5: the component of an intercepted call made while another intercepted
\* call of the same chain is in flight has that call as its parent and is
\* never appended to the root sink.
CounterC5 ==
    \A b \in DOMAIN comp :
        LET a == inv[b].encl
        IN (a # 0 /\ Enabled(a) /\ Enabled(b)) =>
               (comp[b].parent_id = a /\ b \notin Range(components))

\* C6: for every component id start precedes end; a component is published
\* only after its wrapped call has returned or raised; and when call b ran
\* nested inside call a on the same chain, b's component is published
\* strictly before a's.
CounterC6 ==
    /\ \A k \in 1..Len(log) :
          log[k][1] = "end" =>
              \E j \in 1..(k - 1) : log[j] = <<"start", log[k][2]>>
    /\ \A a \in Invocations : Count("publish", a) > 0 => inv[a].done
    /\ \A a, b \in Invocations :
          (/\ inv[b].encl = a
           /\ Enabled(a) /\ Enabled(b)
           /\ inv[b].done /\ Ordinary(b)
           /\ Count("publish", a) > 0)
          => \E ka, kb \in 1..Len(log) :
                /\ log[kb] = <<"publish", b>>
                /\ log[ka] = <<"publish", a>>
                /\ kb < ka
                /\ \A j \in 1..(ka - 1) : log[j] # <<"publish", a>>

\* C7: while a chain has an intercepted call in flight, a step of another
\* chain never changes the current-component marker that chain sees.
CounterC7 ==
    [][\A x \in Chains :
          (/\ \E k \in 1..Len(stack[x]) : stack[x][k].traced
           /\ stack'[x] = stack[x]
           /\ stack' # stack)
          => current_component_id' = current_component_id]_vars

\* C8: after unpatch_llm_calls every method that wrap_method replaced holds
\* the callable it had before instrumentation was first installed, also
\* when the same (target, method) was installed more than once (an object
\* whose setattr raised during the restore is set aside).
CounterC8 ==
    sinceUnpatch =>
        \A tm \in Patchable :
            (tm[2] # "__init__" /\ tm[1] \notin restoreFailed)
                => methods[tm] = 0

\* C9: unpatch_llm_calls leaves the registry empty, and a call that directly
\* follows another one leaves it empty again and changes no target method.
TheoremC9 ==
    [][/\ unpatchStreak' > 0 => patches' = <<>>
       /\ (unpatchStreak > 0 /\ unpatchStreak' > 0) =>
              (patches' = <<>> /\ methods' = methods)]_vars

WitnessC9 ==
    /\ unpatchStreak = 2
    /\ patches = <<>>
    /\ auto_instrument_llm
    /\ \E tm \in Patchable : methods[tm] > 0

\* C10: the metric names of one built component are pairwise distinct.
CounterC10 ==
    \A i \in DOMAIN comp :
        \A j, k \in 1..Len(comp[i].metrics) :
            j # k => comp[i].metrics[j] # comp[i].metrics[k]

\* the metrics registered for span `name`, in registration order
Registered(name) ==
    IF name \in DOMAIN span_attributes_dict
        THEN span_attributes_dict[name].metrics ELSE <<>>

\* how many of the entries registered before position j carry the same name
EarlierSame(raw, j) == Cardinality({l \in 1..(j - 1) : raw[l] = raw[j]})

\* C11: the step that builds a component names its metrics per span and in
\* first-seen order: the j-th registered entry keeps its name when no entry
\* registered before it for this span has the same name, and gets the suffix
\* _n when n earlier entries of this span have the same name, whatever names
\* earlier components used and whatever other names share its prefix.
CounterC11 ==
    [][\A i \in (DOMAIN comp') \ (DOMAIN comp) :
          LET raw == Registered(comp'[i].name)
              got == comp'[i].metrics
          IN /\ Len(got) = Len(raw)
             /\ \A j \in 1..Len(raw) :
                   got[j] = IF EarlierSame(raw, j) = 0 THEN raw[j]
                            ELSE raw[j] \o <<"_">> \o Decimal(EarlierSame(raw, j))]_vars

\* C12: no step lowers total_tokens or total_cost.
CounterC12 ==
    [][total_tokens' >= total_tokens /\ total_cost' >= total_cost]_vars

\* C13: once a component has been published (handed to add_component or
\* appended to a parent's children) no later step publishes it again or
\* changes any of its fields, the wrappers of trace_llm included.
CounterC13 ==
    [][\A i \in DOMAIN comp :
          Count("publish", i) >= 1 =>
              /\ comp'[i] = comp[i]
              /\ Count("publish", i)' = Count("publish", i)]_vars

\* invocation i ran inside invocation f (directly or through other frames)
RECURSIVE Within(_, _)
Within(i, f) ==
    /\ inv[i].encl # 0
    /\ (inv[i].encl = f \/ Within(inv[i].encl, f))

\* C14: a component that a decorated invocation took from self.llm_data to
\* stamp and route was built by an instrumented call made inside that same
\* invocation, never by another invocation.
CounterC14 ==
    \A f \in Invocations :
        (inv[f].took # NotTaken /\ inv[f].took # NoId) => Within(inv[f].took, f)

Occurrences(q, k) == Cardinality({j \in 1..Len(q) : q[j] = k})

\* C15: a step that routes component k appends it once, to the children of
\* the agent of the acting chain when that chain has one and to the root
\* sink otherwise.
CounterC15 ==
    [][\A c \in Chains :
          stack'[c] # stack[c] =>
              \A k \in (DOMAIN comp') \cup {NoId} :
                  LET toRoot == Occurrences(components', k)
                                    - Occurrences(components, k)
                      toChildren == Occurrences(agent_children'[c], k)
                                        - Occurrences(agent_children[c], k)
                  IN /\ toRoot + toChildren <= 1
                     /\ current_agent_id[c] # NoId => toRoot = 0
                     /\ current_agent_id[c] = NoId => toChildren = 0]_vars

\* the error entry of the dict a decorated invocation took
ErrorOf(k) == IF k = NoId THEN blank.error ELSE comp[k].error

\* C18: when the function of an active decorated invocation raised an
\* Exception, the caller observes that same fault, and the wrapper has
\* routed a component that carries the fault's type and message, whether
\* or not the function made an instrumented call.
CounterC18 ==
    \A f \in Invocations :
        (/\ inv[f].entry \in Wrappers
         /\ inv[f].active /\ inv[f].done
         /\ inv[f].outcome.kind = "raise"
         /\ inv[f].outcome.fault.cls \in ExceptionClasses)
        => /\ inv[f].observed = inv[f].outcome
           /\ inv[f].took # NotTaken
           /\ inv[f].took \in Range(components)
                  \/ \E c \in Chains : inv[f].took \in Range(agent_children[c])
           /\ ErrorOf(inv[f].took).type = inv[f].outcome.fault.cls
           /\ ErrorOf(inv[f].took).message = inv[f].outcome.fault.args[1]

\* C16: when the wrapped call of an enabled invocation returned and a
\* collaborator raised during the bookkeeping that follows, the caller
\* still observes the returned result and the component of the invocation
\* carries no error.
CounterC16 ==
    \A i \in Invocations :
        (/\ Enabled(i) /\ inv[i].done
         /\ inv[i].outcome.kind = "return"
         /\ inv[i].collab # NoFault)
        => /\ inv[i].observed = inv[i].outcome
           /\ i \in DOMAIN comp => comp[i].error = NoError

\* C17: when the awaited call of an enabled invocation was cancelled, then
\* by the time the cancellation reaches the caller end_component has run
\* for the invocation and a component with an error envelope has been
\* built and published for it.
CounterC17 ==
    \A i \in Invocations :
        (/\ Enabled(i) /\ inv[i].done
         /\ inv[i].outcome = Cancelled)
        => /\ Count("end", i) = 1
           /\ i \in DOMAIN comp
           /\ comp[i].error.type = "CancelledError"
           /\ Count("publish", i) = 1

\* the last entry of the registry recorded for target tm
LastEntry(tm) ==
    patches[CHOOSE k \in 1..Len(patches) :
                /\ <<patches[k][1], patches[k][2]>> = tm
                /\ \A j \in (k + 1)..Len(patches) :
                       <<patches[j][1], patches[j][2]>> # tm]

\* C19: in an unpatch_llm_calls step in which the restore of some entry
\* failed, every entry on another object has been restored (its target
\* holds the callable that the last such entry recorded), no fault reaches
\* the caller and the registry is empty afterwards.
TheoremC19 ==
    [][(unpatchStreak' > 0 /\ restoreFailed' # {}) =>
          /\ unpatchFault' = NoFault
          /\ patches' = <<>>
          /\ \A k \in 1..Len(patches) :
                 LET tm == <<patches[k][1], patches[k][2]>>
                 IN tm[1] \notin restoreFailed' =>
                        /\ tm \in restored'
                        /\ methods'[tm] = LastEntry(tm)[3]]_vars

WitnessC19 ==
    /\ unpatchStreak > 0
    /\ restoreFailed = {"litellm"}
    /\ methods[<<"litellm", "completion">>] > 0
    /\ <<"GenerativeModel", "generate_content">> \in restored
    /\ patches = <<>>
    /\ unpatchFault = NoFault

\* C20: every key of the buffer map belongs to a component that is active:
\* start_component has run for it and end_component has not.
CounterC20 ==
    \A id \in component_network_calls :
        Count("start", id) = 1 /\ Count("end", id) = 0

\* C21: from every state in which an intercepted call is in flight, the
\* rest of trace_llm_call and the rest of trace_llm_call_sync leave the
\* tracer in the same state (counters, last-built-component field, sinks,
\* components, order of the start / end / build / publish events) for the
\* same outcome of the wrapped call, returned or raised.
CounterC21 ==
    \A c \in Chains :
        (stack[c] # <<>> /\ Top(c).traced /\ Top(c).pc = "call") =>
            LET i == Top(c).inv
            IN /\ \A out \in {o \in Outcomes : o.kind = "return"} :
                      AsyncSuccess(Self, c, i, out.result)
                          = SyncSuccess(Self, c, i, out.result)
               /\ \A out \in {o \in Outcomes : o.kind = "raise"} :
                      IsException(out.fault) =>
                          AsyncFailure(Self, c, i, out.fault)
                              = SyncFailure(Self, c, i, out.fault)

\* the sum of field "tokens" / "cost" over the components with ids in S
RECURSIVE SumTokens(_)
SumTokens(S) ==
    IF S = {} THEN 0
    ELSE LET i == CHOOSE x \in S : TRUE
         IN comp[i].tokens + SumTokens(S \ {i})

RECURSIVE SumCost(_)
SumCost(S) ==
    IF S = {} THEN 0
    ELSE LET i == CHOOSE x \in S : TRUE
         IN comp[i].cost + SumCost(S \ {i})

\* C22: when no intercepted call is in flight, total_tokens is the sum of
\* the tokens of all built components and total_cost the sum of their
\* costs; the component of a failing call counts zero.
CounterC22 ==
    (\A c \in Chains : stack[c] = <<>>) =>
        /\ total_tokens = SumTokens(DOMAIN comp)
        /\ total_cost = SumCost(DOMAIN comp)
        /\ \A i \in DOMAIN comp :
               comp[i].error # NoError => (comp[i].tokens = 0 /\ comp[i].cost = 0)

\* C23: the step that builds a component under span name n leaves the
\* declared attributes of n empty and the attributes of every other span
\* name as they were; a component built while n has no declared attributes
\* carries no tags and no metrics.
TheoremC23 ==
    [][\A i \in (DOMAIN comp') \ (DOMAIN comp) :
          LET n == comp'[i].name
          IN /\ n \in DOMAIN span_attributes_dict'
             /\ span_attributes_dict'[n] = EmptySpan
             /\ \A m \in (DOMAIN span_attributes_dict) \ {n} :
                    span_attributes_dict'[m] = span_attributes_dict[m]
             /\ (n \notin DOMAIN span_attributes_dict
                    \/ span_attributes_dict[n] = EmptySpan)
                   => (comp'[i].tags = <<>> /\ comp'[i].metrics = <<>>)]_vars

WitnessC23 ==
    \E i, j \in DOMAIN comp :
        /\ i < j
        /\ comp[i].name = "s2" /\ comp[j].name = "s2"
        /\ comp[i].tags = <<"t">> /\ comp[i].metrics # <<>>
        /\ comp[j].tags = <<>> /\ comp[j].metrics = <<>>
        /\ span_attributes_dict["s2"] = EmptySpan
        /\ "s1" \in DOMAIN span_attributes_dict
        /\ span_attributes_dict["s1"].tags = <<"t">>
        /\ span_attributes_dict["s1"].metadata = {"k"}
        /\ span_attributes_dict["s1"].metrics # <<>>

\* the names of the entries of a metrics argument that have both fields
RECURSIVE ValidNames(_)
ValidNames(metrics) ==
    IF metrics = <<>> THEN <<>>
    ELSE (IF Head(metrics).has_name /\ Head(metrics).has_score
             THEN <<Head(metrics).name>> ELSE <<>>)
         \o ValidNames(Tail(metrics))

\* C25: a trace_llm call registers against its span name every entry of
\* its metrics argument that has a name and a score, in order, also the
\* entries that follow one lacking a field; the entries lacking a field are
\* left out.
CounterC25 ==
    [][declaration' # declaration =>
          span_attributes_dict'[declaration'.name].metrics
              = Registered(declaration'.name)
                    \o ValidNames(declaration'.metrics)]_vars

\* the component of the innermost frame of chain c that started one
Innermost(c) ==
    LET started == {k \in 1..Len(stack[c]) : stack[c][k].traced}
    IN IF started = {} THEN NoId
       ELSE stack[c][CHOOSE k \in started : \A j \in started : j <= k].inv

\* C26: as long as all calls were made on the single chain X and each one
\* that ended returned or raised an Exception, the current-component marker
\* is, while a component is in flight on X, the id of the innermost such
\* component (so it is empty only when none is in flight).
CounterC26 ==
    (/\ \A i \in Invocations : inv[i].chain = "X"
     /\ \A i \in Invocations : inv[i].done => Ordinary(i)
     /\ Innermost("X") # NoId)
    => current_component_id = Innermost("X")

(***************************************************************************)
(* C24  Parameter display projection.                                      *)
(***************************************************************************)
ScalarEntry(e) == IsScalar(e.value)

\* C24: in a built record, the displayed parameters are scalar-valued
\* entries only, at most MAX_PARAMETERS_TO_DISPLAY of them, namely the first
\* scalar-valued entries of the parameters mapping in its order, and the
\* extra-parameters field is the whole mapping.
CounterC24 ==
    display.built =>
        /\ \A j \in 1..Len(display.info) : IsScalar(display.info[j].value)
        /\ Len(display.info) <= MAX_PARAMETERS_TO_DISPLAY
        /\ display.info = FirstItems(SelectSeq(parameters, ScalarEntry),
                                     MAX_PARAMETERS_TO_DISPLAY)
        /\ display.extra_info = parameters

=============================================================================
